---------------------------- MODULE Spec2Model ----------------------------
(***************************************************************************)
(* HandyBangla server: the booking status state machine of the bookings    *)
(* and admin routers, the notification fan-out (Ledger row, realtime push  *)
(* to the per-user room, e-mail) that follows booking creation, every      *)
(* status change and every chat message, the socket.io rooms and chat, and *)
(* the access control in front of both transports.                         *)
(*                                                                         *)
(* Spec        : every HTTP handler runs to completion as one step         *)
(*               (sequential requests), its notification dispatch          *)
(*               included; every notification channel works.               *)
(* SpecCore    : the booking lifecycle alone: service creation, booking    *)
(*               creation and PATCH /api/bookings/:id/status by users of   *)
(*               all three roles.                                          *)
(* SpecConc    : PATCH /api/bookings/:id/status is split at its await      *)
(*               points (findUnique ... update), so that requests          *)
(*               interleave.                                               *)
(* SpecCatalog : services are created and switched active / inactive, and  *)
(*               roles change, before bookings are created.                *)
(* SpecChat    : sockets connect, join and leave booking rooms and send    *)
(*               chat messages.                                            *)
(* SpecChatAdmin: SpecChat with the admin's role changes, so that a        *)
(*               provider can become a customer before booking.            *)
(* SpecDispatch: booking creation, status change and chat message with     *)
(*               every combination of outcomes of the three notification   *)
(*               channels.                                                 *)
(* SpecAuth    : requests and socket handshakes carry a bearer token that  *)
(*               is resolved before the handler runs.                      *)
(* SpecLedger  : the notification routes (mark read, read all, delete)     *)
(*               beside the handlers that create notifications.            *)
(* SpecAsync   : a handler answers and calls its notifier in one step and  *)
(*               every await of the dispatch is a later step with a free   *)
(*               outcome; the handler's own write can fail.                *)
(* SpecAsyncFair: SpecAsync with every pending dispatch step run sooner or *)
(*               later.                                                    *)
(* SpecAsyncChat: the same split for send_message.                         *)
(* SpecCreate  : booking creation with every body a client can send,       *)
(*               beside role changes and the dispatch.                     *)
(* SpecFrame   : status requests, a target outside the schema included,    *)
(*               beside a role change and a chat message.                  *)
(* SpecRating  : POST /api/ratings split between its checks and its        *)
(*               create, beside status changes.                            *)
(* SpecHistory : the message history route beside the chat.                *)
(***************************************************************************)
EXTENDS Integers, Sequences, FiniteSets, TLC

\* ------------------------------------------------------------ bounds
MaxServices      == 1
MaxBookings      == 1
MaxNotifications == 3
MaxSockets       == 2
MaxRoleChanges   == 1
MaxTime          == 1
MaxInflight      == 2
MaxMessages      == 1
MaxBody          == 2
MaxJobs          == 2

\* ------------------------------------------------------- value domains
Users    == {"A", "B", "C"}
NoUser   == "nobody"
Roles    == {"CUSTOMER", "PROVIDER", "ADMIN"}
\* enum BookingStatus; PENDING is the default of a new row
Statuses == {"PENDING", "ACCEPTED", "DECLINED", "COMPLETED", "CANCELLED"}
NoStatus == "NONE"
Times    == 0 .. MaxTime
Sockets  == 1 .. MaxSockets

\* identities the identity provider knows; "D" has no local user record
Identities == Users \cup {"D"}
\* the bearer token of a request or handshake: absent, refused by the
\* identity provider, or the token of an identity
Tokens == Identities \cup {"missing", "invalid"}

\* message bodies: strings over a whitespace and a non-whitespace character
Chars  == {" ", "a"}
Bodies == UNION {[1 .. n -> Chars] : n \in 0 .. MaxBody}

\* mutant: the schema of the admin route is used
StatusSchemaOfAdmin ==
  {"PENDING", "ACCEPTED", "DECLINED", "COMPLETED", "CANCELLED"}

\* z.enum of PATCH /api/bookings/:id/status
StatusSchema      == {"ACCEPTED", "DECLINED", "CANCELLED", "COMPLETED"}
\* z.enum of PATCH /api/admin/bookings/:id/status
AdminStatusSchema == {"PENDING", "ACCEPTED", "DECLINED", "COMPLETED", "CANCELLED"}

\* responseDueAt: new Date(Date.now() + 5 * 60 * 1000)
ResponseWindowMs == 5 * 60 * 1000

\* outcomes of the three channels of one dispatch
\* prisma.notification.create resolves or rejects
LedgerOutcomes == {"ok", "fail"}
\* io.to(room).emit returns or throws
PushOutcomes   == {"ok", "fail"}
\* sendEmailNotification: mail handed over, transport disabled, no address
\* resolved for the recipient, transporter.sendMail rejected
EmailOutcomes  == {"sent", "disabled", "noAddress", "sendFailed"}
EmailFailures  == {"disabled", "noAddress", "sendFailed"}

\* one dispatch: a channel that is not reached has outcome "none"
Faults ==
  {f \in [ledger : LedgerOutcomes, push : PushOutcomes \cup {"none"},
          email : EmailOutcomes \cup {"none"}] :
     /\ f.push = "none" <=> f.ledger = "fail"
     /\ f.email = "none" <=> f.push # "ok"}
NoFault    == [ledger |-> "ok", push |-> "ok", email |-> "sent"]
NoDispatch == [ledger |-> "none", push |-> "none", email |-> "none"]

\* prisma.booking.create / update and prisma.message.create resolve or reject
StoreOutcomes == {"ok", "fail"}

\* the stages of one dispatch: the Ledger write is pending, the push is
\* pending, the e-mail hand-off is pending, the dispatch ended, or the
\* rejection of createNotification was logged by the caller's .catch
Stages == {"ledger", "push", "email", "done", "dropped"}

VARIABLES
  role,           \* User.role of each local user record
  roleChanges,    \* number of role updates done (bounds the model)
  services,       \* Service rows: <<[providerId, isActive]>>, id = index
  bookings,       \* Booking rows, id = index
  notifications,  \* Notification rows (the Ledger), in creation order
  messages,       \* Message rows, in creation order
  socketUser,     \* live socket -> socket.data.userId, NoUser when closed
  rooms,          \* socket -> names of the socket.io rooms it has joined
  emitted,        \* socket.io emits made by the last step, in order
  dispatched,     \* what each channel did in the dispatch of the last step
  inflight,       \* status requests <<user, role, bid, target, before>> between read and write
  last,           \* the last handler run and its response
  deleted,        \* ids (indices) of the Notification rows removed by deleteMany
  jobs,           \* the dispatches started and the stage each has reached
  ratings,        \* Rating rows, in creation order
  ratingsInflight,\* rating requests <<user, bid, stars, status>> between check and create
  serviceStats    \* service id -> [totalReviews, averageRating] of the Service row

\* the state of the notification routes, of a dispatch that runs beside the
\* handlers, and of the ratings route
sideVars == <<deleted, jobs, ratings, ratingsInflight, serviceStats>>

vars == <<role, roleChanges, services, bookings, notifications, messages,
          socketUser, rooms, emitted, dispatched, inflight, last, sideVars>>

NoOp == [op |-> "none", user |-> NoUser, role |-> "NONE", bid |-> 0,
         target |-> NoStatus, before |-> NoStatus, old |-> NoStatus,
         outcome |-> "none", sid |-> 0, claimed |-> NoUser, store |-> "none",
         listed |-> << >>]

\* sid: the serviceId of the body of POST /api/bookings, 0 elsewhere;
\* claimed: the customerId key of that body, NoUser when the body has none;
\* store: how the handler's write to the store ended, "none" when a handler
\* whose write can fail in the model did not reach it;
\* listed: the messages of the body of a listing response
Response(op, u, r, b, t, before, old, outcome) ==
  [op |-> op, user |-> u, role |-> r, bid |-> b, target |-> t,
   before |-> before, old |-> old, outcome |-> outcome, sid |-> 0,
   claimed |-> NoUser, store |-> "none", listed |-> << >>]

\* ------------------------------------------------------------ helpers
BookingIds == 1 .. MaxBookings
ServiceIds == 1 .. MaxServices

StatusOf(bks, b) == IF b \in DOMAIN bks THEN bks[b].status ELSE NoStatus

\* `user_${userId}` and `booking:${bookingId}`
UserRoomName(u)    == "user_" \o u
BookingRoomName(b) == "booking:" \o ToString(b)

\* mutant: the socket joins the per-user room of every user
OwnRoomsOfEverybody(u) == {UserRoomName(v) : v \in Users}

\* socket.join(`user_${socket.data.userId}`) on connection
OwnRooms(u) == {UserRoomName(u)}

\* the members of a room: io.to(room) reaches exactly these sockets
RoomMembers(name) == {s \in Sockets : name \in rooms[s]}
UserRoom(u)       == RoomMembers(UserRoomName(u))
BookingRoom(b)    == RoomMembers(BookingRoomName(b))

\* String.prototype.trim
RECURSIVE TrimStart(_)
TrimStart(body) ==
  IF body # << >> /\ Head(body) = " " THEN TrimStart(Tail(body)) ELSE body

RECURSIVE TrimEnd(_)
TrimEnd(body) ==
  IF body # << >> /\ body[Len(body)] = " "
    THEN TrimEnd(SubSeq(body, 1, Len(body) - 1))
    ELSE body

Trim(body) == TrimEnd(TrimStart(body))

\* prisma.notification.create: read defaults to false
NotificationRow(u, type, b) ==
  [userId |-> u, type |-> type, bookingId |-> b, read |-> FALSE]

\* io.to(`user_${params.userId}`).emit("new_notification", notification)
Push(n) == [room |-> UserRoomName(n.userId), event |-> "new_notification",
            payload |-> n, to |-> UserRoom(n.userId)]

\* io.to(`booking:${bookingId}`).emit("new_message", message)
Broadcast(b, message) ==
  [room |-> BookingRoomName(b), event |-> "new_message", payload |-> message,
   to |-> BookingRoom(b)]

\* socket.emit("error", { message })
SocketError(s, text) ==
  [room |-> "socket", event |-> "error", payload |-> text, to |-> {s}]

\* createNotification under channel outcomes f: the row is written first;
\* the push is made once the row is written
LedgerRows(n, f) == IF f.ledger = "ok" THEN <<n>> ELSE << >>

\* mutant: the push waits for the e-mail to be sent
PushesAfterEmail(n, f) ==
  IF f.ledger = "ok" /\ f.push = "ok" /\ f.email = "sent"
    THEN <<Push(n)>> ELSE << >>

Pushes(n, f) ==
  IF f.ledger = "ok" /\ f.push = "ok" THEN <<Push(n)>> ELSE << >>

\* createNotification rethrows what its try block caught
CreateNotificationResult(f) ==
  IF f.ledger = "ok" /\ f.push = "ok" THEN "resolved" ELSE "rejected"

\* notifyBookingCreated / notifyBookingStatusChange / notifyMessageReceived:
\* await createNotification, then sendEmailNotification(...).catch(...)
\* without awaiting it (it returns early or catches, and never rejects)
NotifyResult(f) ==
  IF CreateNotificationResult(f) = "rejected" THEN "rejected" ELSE "resolved"

\* what each channel did: the e-mail is attempted only after
\* createNotification returned
Dispatched(f) ==
  [ledger |-> f.ledger,
   push   |-> IF f.ledger = "ok" THEN f.push ELSE "none",
   email  |-> IF CreateNotificationResult(f) = "resolved" THEN f.email
              ELSE "none"]

\* mutant: the rejection of the notifier reaches the caller
ResponseAfterDispatchUncaught(primary, result) ==
  IF result = "rejected" THEN "Internal" ELSE primary

\* mutant: the handler answers only after the notifier has settled
ResponseAfterDispatchAwaited(primary, result) ==
  IF result = "pending" THEN "none" ELSE primary

\* the handler answers (res.json, or the new_message broadcast) before it
\* calls the notifier, and the notifier's promise carries a .catch
ResponseAfterDispatch(primary, result) == primary

\* notifyBookingCreated: addressed to booking.providerId
BookingCreatedNotification(b, bk) ==
  NotificationRow(bk.providerId, "BOOKING_CREATED", b)

\* notifyBookingStatusChange: addressed to booking.customerId, whoever acted
StatusChangeRecipient(bk, actor) == bk.customerId

StatusChangeNotification(b, bk, status, actor) ==
  NotificationRow(StatusChangeRecipient(bk, actor), "BOOKING_" \o status, b)

\* send_message line 144: the other user of the booking
MessageRecipient(bk, senderId) ==
  IF bk.customerId = senderId THEN bk.providerId ELSE bk.customerId

\* notifyMessageReceived
MessageReceivedNotification(b, recipientId) ==
  NotificationRow(recipientId, "MESSAGE_RECEIVED", b)

\* mutant: the response window is not added
ResponseDueAtNoWindow(now) == now

\* line 567: responseDueAt of a new booking
ResponseDueAt(now) == now + ResponseWindowMs

\* mutant: the "Can only complete accepted bookings" check is missing
ProviderTransitionRejectedNoCompleteCheck(target, current) ==
  \/ target \in {"ACCEPTED", "DECLINED"} /\ current # "PENDING"
  \/ target \notin {"ACCEPTED", "DECLINED", "COMPLETED"}

\* lines 717-736: the PROVIDER block of the transition validation
ProviderTransitionRejected(target, current) ==
  \/ target = "COMPLETED" /\ current # "ACCEPTED"
  \/ target \in {"ACCEPTED", "DECLINED"} /\ current # "PENDING"
  \/ target \notin {"ACCEPTED", "DECLINED", "COMPLETED"}

\* line 738: the CUSTOMER condition of the transition validation
CustomerTransitionRejected(target, current) ==
  target # "CANCELLED" /\ current # "PENDING"

\* The checks of PATCH /api/bookings/:id/status before its update, in order
StatusOutcome(r, u, target, b, bks) ==
  IF target \notin StatusSchema THEN "ValidationError"
  ELSE IF b \notin DOMAIN bks THEN "NotFound"
  ELSE IF r = "PROVIDER" /\ bks[b].providerId # u THEN "Forbidden"
  ELSE IF r = "CUSTOMER" /\ bks[b].customerId # u THEN "Forbidden"
  ELSE IF r = "PROVIDER" /\ ProviderTransitionRejected(target, bks[b].status)
    THEN "InvalidTransition"
  ELSE IF r = "CUSTOMER" /\ CustomerTransitionRejected(target, bks[b].status)
    THEN "InvalidTransition"
  ELSE "OK"

\* mutant: an inactive service can be booked
CreateBookingOutcomeNoActiveCheck(r, sid, svs) ==
  IF r # "CUSTOMER" THEN "Forbidden"
  ELSE IF sid \notin DOMAIN svs THEN "NotFound"
  ELSE "Created"

\* The checks of POST /api/bookings before its create, in order
CreateBookingOutcome(r, sid, svs) ==
  IF r # "CUSTOMER" THEN "Forbidden"
  ELSE IF sid \notin DOMAIN svs \/ ~svs[sid].isActive THEN "NotFound"
  ELSE "Created"

\* mutant: an identity without a local record is answered like a bad token
AuthenticateOneOutcome(token) ==
  IF token \notin DOMAIN role THEN "Unauthorized" ELSE "OK"

\* authenticate: 401 without a bearer token or when the identity provider
\* refuses it, 404 when the identity has no local user record
Authenticate(token) ==
  IF token = "missing" THEN "Unauthorized"
  ELSE IF token = "invalid" THEN "Unauthorized"
  ELSE IF token \notin DOMAIN role THEN "NotFound"
  ELSE "OK"

\* io.use: the Error handed to next()
HandshakeOutcome(token) ==
  IF token = "missing" THEN "Authentication error"
  ELSE IF token = "invalid" THEN "Authentication error"
  ELSE IF token \notin DOMAIN role THEN "User not found"
  ELSE "OK"

\* ------------------------------------------------------------- initial
Init ==
  /\ role = [u \in Users |->
               CASE u = "A" -> "CUSTOMER" [] u = "B" -> "PROVIDER"
                 [] OTHER -> "ADMIN"]
  /\ roleChanges = 0
  /\ services = << >>
  /\ bookings = << >>
  /\ notifications = << >>
  /\ messages = << >>
  /\ socketUser = [s \in Sockets |-> NoUser]
  /\ rooms = [s \in Sockets |-> {}]
  /\ emitted = << >>
  /\ dispatched = NoDispatch
  /\ inflight = {}
  /\ last = NoOp
  /\ deleted = {}
  /\ jobs = << >>
  /\ ratings = << >>
  /\ ratingsInflight = {}
  /\ serviceStats = [sid \in ServiceIds |->
                       [totalReviews |-> 0, averageRating |-> 0]]

\* ------------------------------------------------------------- actions
\* POST /api/services
CreateService(u) ==
  /\ Len(services) < MaxServices
  /\ IF role[u] # "PROVIDER"
       THEN /\ last' = Response("createService", u, role[u], 0, NoStatus,
                                NoStatus, NoStatus, "Forbidden")
            /\ UNCHANGED services
       ELSE /\ services' = Append(services, [providerId |-> u, isActive |-> TRUE])
            /\ last' = Response("createService", u, role[u], 0, NoStatus,
                                NoStatus, NoStatus, "Created")
  /\ emitted' = << >>
  /\ dispatched' = NoDispatch
  /\ UNCHANGED <<role, roleChanges, bookings, notifications, messages,
                 socketUser, rooms, inflight, sideVars>>

\* PUT /api/services/:id with isActive
UpdateService(u, sid, isActive) ==
  LET outcome == IF role[u] # "PROVIDER" THEN "Forbidden"
                 ELSE IF sid \notin DOMAIN services
                         \/ services[sid].providerId # u THEN "NotFound"
                 ELSE "OK"
  IN
  /\ IF outcome = "OK"
       THEN services' = [services EXCEPT ![sid].isActive = isActive]
       ELSE UNCHANGED services
  /\ last' = Response("updateService", u, role[u], 0, NoStatus, NoStatus,
                      NoStatus, outcome)
  /\ emitted' = << >>
  /\ dispatched' = NoDispatch
  /\ UNCHANGED <<role, roleChanges, bookings, notifications, messages,
                 socketUser, rooms, inflight, sideVars>>

\* PATCH /api/admin/users/:id with a role
AdminPatchUser(u, id, newRole) ==
  /\ roleChanges < MaxRoleChanges
  /\ IF role[u] # "ADMIN"
       THEN /\ last' = Response("adminPatchUser", u, role[u], 0, NoStatus,
                                NoStatus, NoStatus, "Forbidden")
            /\ UNCHANGED <<role, roleChanges>>
       ELSE /\ role' = [role EXCEPT ![id] = newRole]
            /\ roleChanges' = roleChanges + 1
            /\ last' = Response("adminPatchUser", u, role[u], 0, NoStatus,
                                NoStatus, NoStatus, "OK")
  /\ emitted' = << >>
  /\ dispatched' = NoDispatch
  /\ UNCHANGED <<services, bookings, notifications, messages, socketUser,
                 rooms, inflight, sideVars>>

\* POST /api/bookings, with notifyBookingCreated under channel outcomes f
CreateBooking(u, sid, now, f) ==
  LET outcome == CreateBookingOutcome(role[u], sid, services)
      b  == Len(bookings) + 1
  IN
  /\ Len(bookings) < MaxBookings
  /\ outcome = "Created" => Len(notifications) < MaxNotifications
  /\ IF outcome = "Created"
       THEN LET bk == [serviceId |-> sid, customerId |-> u,
                       providerId |-> services[sid].providerId,
                       status |-> "PENDING", createdAt |-> now,
                       responseDueAt |-> ResponseDueAt(now)]
                n  == BookingCreatedNotification(b, bk)
            IN /\ bookings' = Append(bookings, bk)
               /\ notifications' = notifications \o LedgerRows(n, f)
               /\ emitted' = Pushes(n, f)
               /\ dispatched' = Dispatched(f)
               /\ last' = [Response("createBooking", u, role[u], b, NoStatus,
                                    NoStatus, NoStatus,
                                    ResponseAfterDispatch("Created",
                                                          NotifyResult(f)))
                             EXCEPT !.sid = sid]
       ELSE /\ UNCHANGED <<bookings, notifications>>
            /\ emitted' = << >>
            /\ dispatched' = NoDispatch
            /\ last' = [Response("createBooking", u, role[u], 0, NoStatus,
                                 NoStatus, NoStatus, outcome)
                          EXCEPT !.sid = sid]
  /\ UNCHANGED <<role, roleChanges, services, messages, socketUser, rooms,
                 inflight, sideVars>>

\* prisma.booking.update + res.json + notifyBookingStatusChange
ApplyStatus(u, r, b, target, before, f) ==
  LET n == StatusChangeNotification(b, bookings[b], target, u) IN
  /\ bookings' = [bookings EXCEPT ![b].status = target]
  /\ notifications' = notifications \o LedgerRows(n, f)
  /\ emitted' = Pushes(n, f)
  /\ dispatched' = Dispatched(f)
  /\ last' = Response("patchStatus", u, r, b, target, before,
                      bookings[b].status,
                      ResponseAfterDispatch("OK", NotifyResult(f)))

\* PATCH /api/bookings/:id/status, run to completion
PatchBookingStatus(u, b, target, f) ==
  LET outcome == StatusOutcome(role[u], u, target, b, bookings) IN
  /\ outcome = "OK" => Len(notifications) < MaxNotifications
  /\ IF outcome = "OK"
       THEN ApplyStatus(u, role[u], b, target, bookings[b].status, f)
       ELSE /\ last' = Response("patchStatus", u, role[u], b, target,
                                StatusOf(bookings, b), StatusOf(bookings, b),
                                outcome)
            /\ emitted' = << >>
            /\ dispatched' = NoDispatch
            /\ UNCHANGED <<bookings, notifications>>
  /\ UNCHANGED <<role, roleChanges, services, messages, socketUser, rooms,
                 inflight, sideVars>>

\* PATCH /api/admin/bookings/:id/status
AdminPatchBookingStatus(u, b, target) ==
  LET outcome == IF role[u] # "ADMIN" THEN "Forbidden"
                 ELSE IF target \notin AdminStatusSchema THEN "ValidationError"
                 ELSE IF b \notin DOMAIN bookings THEN "Internal"
                 ELSE "OK"
  IN
  /\ IF outcome = "OK"
       THEN bookings' = [bookings EXCEPT ![b].status = target]
       ELSE UNCHANGED bookings
  /\ last' = Response("adminPatchStatus", u, role[u], b, target,
                      StatusOf(bookings, b), StatusOf(bookings, b), outcome)
  /\ emitted' = << >>
  /\ dispatched' = NoDispatch
  /\ UNCHANGED <<role, roleChanges, services, notifications, messages,
                 socketUser, rooms, inflight, sideVars>>

\* io.on("connection"): the socket joins its own per-user room
Connect(s, u) ==
  /\ socketUser[s] = NoUser
  /\ socketUser' = [socketUser EXCEPT ![s] = u]
  /\ rooms' = [rooms EXCEPT ![s] = OwnRooms(u)]
  /\ last' = Response("connect", u, role[u], 0, NoStatus, NoStatus, NoStatus, "OK")
  /\ emitted' = << >>
  /\ dispatched' = NoDispatch
  /\ UNCHANGED <<role, roleChanges, services, bookings, notifications,
                 messages, inflight, sideVars>>

\* socket "disconnect": socket.io drops the socket from all its rooms
Disconnect(s) ==
  /\ socketUser[s] # NoUser
  /\ socketUser' = [socketUser EXCEPT ![s] = NoUser]
  /\ rooms' = [rooms EXCEPT ![s] = {}]
  /\ last' = Response("disconnect", socketUser[s], role[socketUser[s]], 0,
                      NoStatus, NoStatus, NoStatus, "OK")
  /\ emitted' = << >>
  /\ dispatched' = NoDispatch
  /\ UNCHANGED <<role, roleChanges, services, bookings, notifications,
                 messages, inflight, sideVars>>

\* mutant: every existing booking can be joined
CanJoinAnyBooking(userId, b, bks) == b \in DOMAIN bks

\* join_booking lines 81-85: the booking exists and the user is a party
CanJoin(userId, b, bks) ==
  /\ b \in DOMAIN bks
  /\ \/ bks[b].customerId = userId
     \/ bks[b].providerId = userId

\* socket.on("join_booking")
JoinBooking(s, b) ==
  LET userId == socketUser[s]
      joins  == CanJoin(userId, b, bookings)
  IN
  /\ userId # NoUser
  /\ rooms' = IF joins
                THEN [rooms EXCEPT ![s] = @ \cup {BookingRoomName(b)}]
                ELSE rooms
  /\ last' = Response("joinBooking", userId, role[userId], b, NoStatus,
                      NoStatus, NoStatus, IF joins THEN "joined" ELSE "ignored")
  /\ emitted' = << >>
  /\ dispatched' = NoDispatch
  /\ UNCHANGED <<role, roleChanges, services, bookings, notifications,
                 messages, socketUser, inflight, sideVars>>

\* socket.on("leave_booking")
LeaveBooking(s, b) ==
  /\ socketUser[s] # NoUser
  /\ rooms' = [rooms EXCEPT ![s] = @ \ {BookingRoomName(b)}]
  /\ last' = Response("leaveBooking", socketUser[s], role[socketUser[s]], b,
                      NoStatus, NoStatus, NoStatus, "left")
  /\ emitted' = << >>
  /\ dispatched' = NoDispatch
  /\ UNCHANGED <<role, roleChanges, services, bookings, notifications,
                 messages, socketUser, inflight, sideVars>>

\* mutant: the access check is missing
SendMessageOutcomeNoAccessCheck(senderId, b, bks) ==
  IF b \notin DOMAIN bks THEN "Booking not found" ELSE "OK"

\* The checks of send_message before its create, in order
SendMessageOutcome(senderId, b, bks) ==
  IF b \notin DOMAIN bks THEN "Booking not found"
  ELSE IF bks[b].customerId # senderId /\ bks[b].providerId # senderId
    THEN "Access denied"
  ELSE "OK"

\* socket.on("send_message"), with notifyMessageReceived under channel
\* outcomes f
SendMessage(s, b, body, f) ==
  LET senderId == socketUser[s]
      outcome  == SendMessageOutcome(senderId, b, bookings)
  IN
  /\ senderId # NoUser
  /\ outcome = "OK" => /\ Len(messages) < MaxMessages
                       /\ Len(notifications) < MaxNotifications
  /\ IF outcome = "OK"
       THEN LET message == [bookingId |-> b, senderId |-> senderId,
                            body |-> Trim(body), type |-> "TEXT"]
                recipientId == MessageRecipient(bookings[b], senderId)
                n == MessageReceivedNotification(b, recipientId)
            IN /\ messages' = Append(messages, message)
               /\ notifications' = notifications \o LedgerRows(n, f)
               /\ emitted' = <<Broadcast(b, message)>> \o Pushes(n, f)
               /\ dispatched' = Dispatched(f)
               /\ last' = Response("sendMessage", senderId, role[senderId], b,
                                   NoStatus, NoStatus, NoStatus,
                                   ResponseAfterDispatch("OK", NotifyResult(f)))
       ELSE /\ UNCHANGED <<messages, notifications>>
            /\ emitted' = <<SocketError(s, outcome)>>
            /\ dispatched' = NoDispatch
            /\ last' = Response("sendMessage", senderId, role[senderId], b,
                                NoStatus, NoStatus, NoStatus, outcome)
  /\ UNCHANGED <<role, roleChanges, services, bookings, socketUser, rooms,
                 inflight, sideVars>>

\* PATCH /api/bookings/:id/status up to its update: authenticate, parse,
\* findUnique and the permission and transition checks
StatusRead(u, b, target) ==
  LET outcome == StatusOutcome(role[u], u, target, b, bookings) IN
  /\ IF outcome = "OK"
       THEN /\ Cardinality(inflight) < MaxInflight
            /\ inflight' = inflight \cup
                 {<<u, role[u], b, target, bookings[b].status>>}
            /\ last' = Response("statusRead", u, role[u], b, target,
                                bookings[b].status, bookings[b].status, "pending")
       ELSE /\ last' = Response("patchStatus", u, role[u], b, target,
                                StatusOf(bookings, b), StatusOf(bookings, b),
                                outcome)
            /\ UNCHANGED inflight
  /\ emitted' = << >>
  /\ dispatched' = NoDispatch
  /\ UNCHANGED <<role, roleChanges, services, bookings, notifications,
                 messages, socketUser, rooms, sideVars>>

\* ... and from its update on: prisma.booking.update({ where: { id } })
StatusWrite(u, r, b, target, before) ==
  /\ <<u, r, b, target, before>> \in inflight
  /\ Len(notifications) < MaxNotifications
  /\ inflight' = inflight \ {<<u, r, b, target, before>>}
  /\ ApplyStatus(u, r, b, target, before, NoFault)
  /\ UNCHANGED <<role, roleChanges, services, messages, socketUser, rooms,
                 sideVars>>

\* next(err) of authenticate / io.use: the error handler answers, no route
\* handler and no connection handler runs; no userId and no role is bound
\* (user holds the token that was presented)
Rejected(op, token, outcome) ==
  /\ last' = Response(op, token, "NONE", 0, NoStatus, NoStatus, NoStatus,
                      outcome)
  /\ emitted' = << >>
  /\ dispatched' = NoDispatch
  /\ UNCHANGED <<role, roleChanges, services, bookings, notifications,
                 messages, socketUser, rooms, inflight, sideVars>>

\* servicesRouter.post("/", authenticate, handler)
ServicesPost(token) ==
  IF Authenticate(token) = "OK"
    THEN CreateService(token)
    ELSE Rejected("createService", token, Authenticate(token))

\* bookingsRouter.use(authenticate); bookingsRouter.post("/")
BookingsPost(token, sid, now) ==
  IF Authenticate(token) = "OK"
    THEN CreateBooking(token, sid, now, NoFault)
    ELSE Rejected("createBooking", token, Authenticate(token))

\* bookingsRouter.use(authenticate); bookingsRouter.patch("/:id/status")
BookingsPatchStatus(token, b, target) ==
  IF Authenticate(token) = "OK"
    THEN PatchBookingStatus(token, b, target, NoFault)
    ELSE Rejected("patchStatus", token, Authenticate(token))

\* io.use(middleware); io.on("connection")
Handshake(s, token) ==
  IF HandshakeOutcome(token) = "OK"
    THEN Connect(s, token)
    ELSE /\ socketUser[s] = NoUser
         /\ Rejected("connect", token, HandshakeOutcome(token))

\* the Notification rows the Ledger holds
Present == DOMAIN notifications \ deleted

\* mutant: the where clause does not name the user
MatchesOfAnyUser(userId, id) == {i \in Present : i = id}

\* where: { id, userId } of updateMany / deleteMany
Matches(userId, id) ==
  {i \in Present : i = id /\ notifications[i].userId = userId}

\* where: { userId, read: false } of the read-all updateMany
UnreadOf(userId) ==
  {i \in Present : notifications[i].userId = userId /\ ~notifications[i].read}

\* data: { read: true } on the matched rows
SetRead(rows) ==
  [i \in DOMAIN notifications |->
     IF i \in rows THEN [notifications[i] EXCEPT !.read = TRUE]
     ELSE notifications[i]]

\* a notification route answers; bid holds the :id of the path
LedgerResponse(op, u, id, outcome) ==
  /\ last' = Response(op, u, role[u], id, NoStatus, NoStatus, NoStatus, outcome)
  /\ emitted' = << >>
  /\ dispatched' = NoDispatch
  /\ UNCHANGED <<role, roleChanges, services, bookings, messages, socketUser,
                 rooms, inflight, jobs, ratings, ratingsInflight, serviceStats>>

\* PATCH /api/notifications/:id/read
MarkRead(u, id) ==
  /\ notifications' = SetRead(Matches(u, id))
  /\ UNCHANGED deleted
  /\ LedgerResponse("markRead", u, id,
                    IF Matches(u, id) = {} THEN "NotFound" ELSE "OK")

\* PATCH /api/notifications/read-all
MarkAllRead(u) ==
  /\ notifications' = SetRead(UnreadOf(u))
  /\ UNCHANGED deleted
  /\ LedgerResponse("markAllRead", u, 0, "OK")

\* DELETE /api/notifications/:id
DeleteNotification(u, id) ==
  /\ deleted' = deleted \cup Matches(u, id)
  /\ UNCHANGED notifications
  /\ LedgerResponse("deleteNotification", u, id,
                    IF Matches(u, id) = {} THEN "NotFound" ELSE "OK")

\* ---------------------------------- handlers and dispatch as separate steps
\* the request body of POST /api/bookings, with or without a customerId key
BookingBodies == [serviceId : ServiceIds, customerId : Users \cup {NoUser}]

\* bookingSchema.parse: z.object keeps the keys of the schema only
ParseBookingBody(body) == [serviceId |-> body.serviceId]

\* mutant: the requester is read from the body when the body names one
CustomerIdFromBody(userId, body) ==
  IF body.customerId # NoUser THEN body.customerId ELSE userId

\* line 531: const customerId = req.userId!
CustomerId(userId, body) == userId

\* mutant: the rejection of the write is swallowed
AfterWriteSwallowed(checked, success, store, failure) == checked

\* the handler's write after its checks passed: a rejection reaches the
\* catch block, which hands it to next(error) (send_message: emits the error
\* event)
AfterWrite(checked, success, store, failure) ==
  IF checked = success /\ store = "fail" THEN failure ELSE checked

\* the write is reached when the checks passed
WriteReached(checked, success, store) ==
  IF checked = success THEN store ELSE "none"

\* the call of a notifier: createNotification has been entered and its
\* prisma.notification.create is pending; actor is the user of the request
StartDispatch(n, actor) ==
  [userId |-> n.userId, type |-> n.type, bookingId |-> n.bookingId,
   actor |-> actor, stage |-> "ledger", row |-> 0]

\* the Notification row a dispatch writes
JobRow(j) == NotificationRow(j.userId, j.type, j.bookingId)

\* POST /api/bookings up to the call of notifyBookingCreated: the checks,
\* prisma.booking.create, res.status(201).json, notifyBookingCreated(booking)
CreateBookingRespond(u, body, now, store) ==
  LET validated == ParseBookingBody(body)
      sid       == validated.serviceId
      checked   == CreateBookingOutcome(role[u], sid, services)
      outcome   == AfterWrite(checked, "Created", store, "Internal")
      wrote     == WriteReached(checked, "Created", store)
      b         == Len(bookings) + 1
  IN
  /\ Len(bookings) < MaxBookings
  /\ outcome = "Created" => Len(jobs) < MaxJobs
  /\ IF outcome = "Created"
       THEN LET bk == [serviceId |-> sid, customerId |-> CustomerId(u, body),
                       providerId |-> services[sid].providerId,
                       status |-> "PENDING", createdAt |-> now,
                       responseDueAt |-> ResponseDueAt(now)]
            IN /\ bookings' = Append(bookings, bk)
               /\ jobs' = Append(jobs,
                                 StartDispatch(BookingCreatedNotification(b, bk), u))
               /\ last' = [Response("createBooking", u, role[u], b, NoStatus,
                                    NoStatus, NoStatus,
                                    ResponseAfterDispatch("Created", "pending"))
                             EXCEPT !.sid = sid, !.claimed = body.customerId,
                                    !.store = wrote]
       ELSE /\ UNCHANGED <<bookings, jobs>>
            /\ last' = [Response("createBooking", u, role[u], 0, NoStatus,
                                 NoStatus, NoStatus, outcome)
                          EXCEPT !.sid = sid, !.claimed = body.customerId,
                                 !.store = wrote]
  /\ emitted' = << >>
  /\ dispatched' = NoDispatch
  /\ UNCHANGED <<role, roleChanges, services, notifications, messages,
                 socketUser, rooms, inflight, deleted, ratings,
                 ratingsInflight, serviceStats>>

\* PATCH /api/bookings/:id/status up to the call of
\* notifyBookingStatusChange: the checks, prisma.booking.update, res.json,
\* notifyBookingStatusChange(updated, status)
PatchStatusRespond(u, b, target, store) ==
  LET checked == StatusOutcome(role[u], u, target, b, bookings)
      outcome == AfterWrite(checked, "OK", store, "Internal")
      wrote   == WriteReached(checked, "OK", store)
  IN
  /\ outcome = "OK" => Len(jobs) < MaxJobs
  /\ IF outcome = "OK"
       THEN /\ bookings' = [bookings EXCEPT ![b].status = target]
            /\ jobs' = Append(jobs,
                   StartDispatch(StatusChangeNotification(b, bookings[b],
                                                          target, u), u))
            /\ last' = [Response("patchStatus", u, role[u], b, target,
                                 bookings[b].status, bookings[b].status,
                                 ResponseAfterDispatch("OK", "pending"))
                          EXCEPT !.store = wrote]
       ELSE /\ UNCHANGED <<bookings, jobs>>
            /\ last' = [Response("patchStatus", u, role[u], b, target,
                                 StatusOf(bookings, b), StatusOf(bookings, b),
                                 outcome)
                          EXCEPT !.store = wrote]
  /\ emitted' = << >>
  /\ dispatched' = NoDispatch
  /\ UNCHANGED <<role, roleChanges, services, notifications, messages,
                 socketUser, rooms, inflight, deleted, ratings,
                 ratingsInflight, serviceStats>>

\* send_message up to the call of notifyMessageReceived: the checks,
\* prisma.message.create, the new_message broadcast,
\* notifyMessageReceived(message, recipientId); the catch block answers a
\* rejected create with the error event
SendMessageRespond(s, b, body, store) ==
  LET senderId == socketUser[s]
      checked  == SendMessageOutcome(senderId, b, bookings)
      outcome  == AfterWrite(checked, "OK", store, "Failed to send message")
      wrote    == WriteReached(checked, "OK", store)
  IN
  /\ senderId # NoUser
  /\ outcome = "OK" => /\ Len(messages) < MaxMessages
                       /\ Len(jobs) < MaxJobs
  /\ IF outcome = "OK"
       THEN LET message == [bookingId |-> b, senderId |-> senderId,
                            body |-> Trim(body), type |-> "TEXT"]
                recipientId == MessageRecipient(bookings[b], senderId)
            IN /\ messages' = Append(messages, message)
               /\ emitted' = <<Broadcast(b, message)>>
               /\ jobs' = Append(jobs,
                      StartDispatch(MessageReceivedNotification(b, recipientId),
                                    senderId))
               /\ last' = [Response("sendMessage", senderId, role[senderId],
                                    b, NoStatus, NoStatus, NoStatus,
                                    ResponseAfterDispatch("OK", "pending"))
                             EXCEPT !.store = wrote]
       ELSE /\ UNCHANGED <<messages, jobs>>
            /\ emitted' = <<SocketError(s, outcome)>>
            /\ last' = [Response("sendMessage", senderId, role[senderId], b,
                                 NoStatus, NoStatus, NoStatus, outcome)
                          EXCEPT !.store = wrote]
  /\ dispatched' = NoDispatch
  /\ UNCHANGED <<role, roleChanges, services, bookings, notifications,
                 socketUser, rooms, inflight, deleted, ratings,
                 ratingsInflight, serviceStats>>

\* a step of a dispatch answers nobody: last names the step, the recipient
\* and the booking of the event
DispatchStep(op, j, outcome) ==
  /\ last' = Response(op, j.userId, "NONE", j.bookingId, NoStatus, NoStatus,
                      NoStatus, outcome)
  /\ UNCHANGED <<role, roleChanges, services, bookings, messages, socketUser,
                 rooms, inflight, deleted, ratings, ratingsInflight,
                 serviceStats>>

\* mutant: the dispatch goes on to the push when the Ledger write failed
AfterLedgerAlwaysPush(o) == "push"

\* createNotification: a rejected prisma.notification.create is caught,
\* logged and rethrown, and the notifier's caller logs it
AfterLedger(o) == IF o = "ok" THEN "push" ELSE "dropped"

\* createNotification: a throwing emit is caught, logged and rethrown; the
\* notifier calls sendEmailNotification only after createNotification
\* returned
AfterPush(o) == IF o = "ok" THEN "email" ELSE "dropped"

\* createNotification: await prisma.notification.create({ data })
DispatchLedger(k, o) ==
  /\ k \in DOMAIN jobs
  /\ jobs[k].stage = "ledger"
  /\ o = "ok" => Len(notifications) < MaxNotifications
  /\ notifications' = IF o = "ok" THEN Append(notifications, JobRow(jobs[k]))
                      ELSE notifications
  /\ jobs' = [jobs EXCEPT ![k].stage = AfterLedger(o),
                          ![k].row = IF o = "ok" THEN Len(notifications) + 1
                                     ELSE 0]
  /\ emitted' = << >>
  /\ dispatched' = [NoDispatch EXCEPT !.ledger = o]
  /\ DispatchStep("dispatchLedger", jobs[k], o)

\* createNotification: io.to(`user_${params.userId}`).emit(
\* "new_notification", notification)
DispatchPush(k, o) ==
  /\ k \in DOMAIN jobs
  /\ jobs[k].stage = "push"
  /\ emitted' = IF o = "ok" /\ jobs[k].row \in DOMAIN notifications
                  THEN <<Push(notifications[jobs[k].row])>>
                  ELSE << >>
  /\ jobs' = [jobs EXCEPT ![k].stage = AfterPush(o)]
  /\ dispatched' = [NoDispatch EXCEPT !.push = o]
  /\ UNCHANGED notifications
  /\ DispatchStep("dispatchPush", jobs[k], o)

\* the notifier: sendEmailNotification(...).catch(...)
DispatchEmail(k, o) ==
  /\ k \in DOMAIN jobs
  /\ jobs[k].stage = "email"
  /\ jobs' = [jobs EXCEPT ![k].stage = "done"]
  /\ emitted' = << >>
  /\ dispatched' = [NoDispatch EXCEPT !.email = o]
  /\ UNCHANGED notifications
  /\ DispatchStep("dispatchEmail", jobs[k], o)

\* the event loop runs the continuation of some pending dispatch
Dispatch ==
  \/ \E k \in 1 .. MaxJobs, o \in LedgerOutcomes : DispatchLedger(k, o)
  \/ \E k \in 1 .. MaxJobs, o \in PushOutcomes : DispatchPush(k, o)
  \/ \E k \in 1 .. MaxJobs, o \in EmailOutcomes : DispatchEmail(k, o)

\* ------------------------------------------------------------- ratings
\* the rating key of the body of POST /api/ratings; 0 is below z.number().min(1)
Stars == {0, 3, 5}

\* booking.rating of findUnique({ include: { rating: true } })
RatingOf(b, rs) == {i \in DOMAIN rs : rs[i].bookingId = b}

\* The checks of POST /api/ratings before its create, in order
RatingOutcome(r, u, b, stars, bks, rs) ==
  IF r # "CUSTOMER" THEN "Forbidden"
  ELSE IF stars < 1 \/ stars > 5 THEN "ValidationError"
  ELSE IF b \notin DOMAIN bks THEN "NotFound"
  ELSE IF bks[b].customerId # u THEN "Forbidden"
  ELSE IF bks[b].status # "COMPLETED" THEN "NotCompleted"
  ELSE IF RatingOf(b, rs) # {} THEN "AlreadyRated"
  ELSE "OK"

\* mutant: the store accepts a second Rating of a booking
CreateRejectedNever(b, rs) == FALSE

\* Rating.bookingId is a unique key (prisma.rating.findUnique({ where: {
\* bookingId } })): the store rejects the create of a second Rating of a
\* booking
CreateRejected(b, rs) == RatingOf(b, rs) # {}

\* Number.prototype.toFixed(2) of totalRating / length, in hundredths
ToFixed2(total, n) == (total * 200 + n) \div (2 * n)

RECURSIVE SumRatings(_, _)
SumRatings(rs, sid) ==
  IF rs = << >> THEN 0
  ELSE (IF Head(rs).serviceId = sid THEN Head(rs).rating ELSE 0)
       + SumRatings(Tail(rs), sid)

\* lines 82-97: averageRating and totalReviews from the ratings of the service
ServiceStats(rs, sid) ==
  LET n == Len(SelectSeq(rs, LAMBDA r : r.serviceId = sid)) IN
  [totalReviews |-> n, averageRating |-> ToFixed2(SumRatings(rs, sid), n)]

\* POST /api/ratings up to its create: the role check, the schema, findUnique
\* and the checks on the booking
RatingCheck(u, b, stars) ==
  LET outcome == RatingOutcome(role[u], u, b, stars, bookings, ratings) IN
  /\ IF outcome = "OK"
       THEN /\ Cardinality(ratingsInflight) < MaxInflight
            /\ ratingsInflight' = ratingsInflight \cup
                 {<<u, b, stars, bookings[b].status>>}
            /\ last' = Response("ratingCheck", u, role[u], b, NoStatus,
                                bookings[b].status, bookings[b].status, "pending")
       ELSE /\ UNCHANGED ratingsInflight
            /\ last' = Response("createRating", u, role[u], b, NoStatus,
                                StatusOf(bookings, b), StatusOf(bookings, b),
                                outcome)
  /\ emitted' = << >>
  /\ dispatched' = NoDispatch
  /\ UNCHANGED <<role, roleChanges, services, bookings, notifications,
                 messages, socketUser, rooms, inflight, deleted, jobs, ratings,
                 serviceStats>>

\* ... and from its create on: prisma.rating.create, the rating figures of
\* the service, res.status(201); a rejected create reaches next(error)
RatingCreate(u, b, stars, checked) ==
  LET sid == bookings[b].serviceId
      row == [bookingId |-> b, serviceId |-> sid, customerId |-> u,
              rating |-> stars]
  IN
  /\ <<u, b, stars, checked>> \in ratingsInflight
  /\ ratingsInflight' = ratingsInflight \ {<<u, b, stars, checked>>}
  /\ IF CreateRejected(b, ratings)
       THEN /\ UNCHANGED <<ratings, serviceStats>>
            /\ last' = Response("createRating", u, role[u], b, NoStatus,
                                checked, bookings[b].status, "Internal")
       ELSE /\ ratings' = Append(ratings, row)
            /\ serviceStats' = [serviceStats EXCEPT
                                  ![sid] = ServiceStats(Append(ratings, row), sid)]
            /\ last' = Response("createRating", u, role[u], b, NoStatus,
                                checked, bookings[b].status, "Created")
  /\ emitted' = << >>
  /\ dispatched' = NoDispatch
  /\ UNCHANGED <<role, roleChanges, services, bookings, notifications,
                 messages, socketUser, rooms, inflight, deleted, jobs>>

\* ------------------------------------------------------ message history
\* mutant: the access check is missing
ListMessagesOutcomeNoAccessCheck(userId, b, bks) ==
  IF b \notin DOMAIN bks THEN "NotFound" ELSE "OK"

\* The checks of GET /api/messages/booking/:bookingId, in order
ListMessagesOutcome(userId, b, bks) ==
  IF b \notin DOMAIN bks THEN "NotFound"
  ELSE IF bks[b].customerId # userId /\ bks[b].providerId # userId
    THEN "Forbidden"
  ELSE "OK"

\* prisma.message.findMany({ where: { bookingId }, orderBy: { createdAt:
\* "asc" } }): the rows of the booking in creation order
MessagesOf(b) == SelectSeq(messages, LAMBDA m : m.bookingId = b)

\* GET /api/messages/booking/:bookingId
ListMessages(u, b) ==
  LET outcome == ListMessagesOutcome(u, b, bookings) IN
  /\ last' = [Response("listMessages", u, role[u], b, NoStatus, NoStatus,
                       NoStatus, outcome)
                EXCEPT !.listed = IF outcome = "OK" THEN MessagesOf(b)
                                  ELSE << >>]
  /\ emitted' = << >>
  /\ dispatched' = NoDispatch
  /\ UNCHANGED <<role, roleChanges, services, bookings, notifications,
                 messages, socketUser, rooms, inflight, sideVars>>

\* messagesRouter.use(authenticate); messagesRouter.get("/booking/:bookingId")
MessagesGet(token, b) ==
  IF Authenticate(token) = "OK"
    THEN ListMessages(token, b)
    ELSE Rejected("listMessages", token, Authenticate(token))

\* ------------------------------------------------------- specifications
Setup ==
  \/ \E u \in Users : CreateService(u)
  \/ \E u \in Users, id \in Users, r \in Roles : AdminPatchUser(u, id, r)
  \/ \E u \in Users, sid \in ServiceIds : CreateBooking(u, sid, 0, NoFault)
  \/ \E s \in Sockets, u \in Users : Connect(s, u)
  \/ \E s \in Sockets : Disconnect(s)

Next ==
  \/ Setup
  \/ \E u \in Users, b \in BookingIds, t \in Statuses :
       PatchBookingStatus(u, b, t, NoFault)
  \/ \E u \in Users, b \in BookingIds, t \in AdminStatusSchema :
       AdminPatchBookingStatus(u, b, t)

Spec == Init /\ [][Next]_vars

NextCore ==
  \/ \E u \in Users : CreateService(u)
  \/ \E u \in Users, sid \in ServiceIds, now \in Times :
       CreateBooking(u, sid, now, NoFault)
  \/ \E u \in Users, b \in BookingIds, t \in Statuses :
       PatchBookingStatus(u, b, t, NoFault)

SpecCore == Init /\ [][NextCore]_vars

NextConc ==
  \/ \E u \in Users : CreateService(u)
  \/ \E u \in Users, sid \in ServiceIds, now \in Times :
       CreateBooking(u, sid, now, NoFault)
  \/ \E u \in Users, b \in BookingIds, t \in StatusSchema : StatusRead(u, b, t)
  \/ \E u \in Users, r \in Roles, b \in BookingIds, t \in StatusSchema,
          before \in Statuses :
       StatusWrite(u, r, b, t, before)

SpecConc == Init /\ [][NextConc]_vars

NextCatalog ==
  \/ \E u \in Users : CreateService(u)
  \/ \E u \in Users, sid \in ServiceIds, a \in BOOLEAN : UpdateService(u, sid, a)
  \/ \E u \in Users, id \in Users, r \in Roles : AdminPatchUser(u, id, r)
  \/ \E u \in Users, sid \in ServiceIds, now \in Times :
       CreateBooking(u, sid, now, NoFault)

SpecCatalog == Init /\ [][NextCatalog]_vars

NextChat ==
  \/ \E u \in Users : CreateService(u)
  \/ \E u \in Users, sid \in ServiceIds : CreateBooking(u, sid, 0, NoFault)
  \/ \E s \in Sockets, u \in Users : Connect(s, u)
  \/ \E s \in Sockets : Disconnect(s)
  \/ \E s \in Sockets, b \in BookingIds : JoinBooking(s, b)
  \/ \E s \in Sockets, b \in BookingIds : LeaveBooking(s, b)
  \/ \E s \in Sockets, b \in BookingIds, body \in Bodies :
       SendMessage(s, b, body, NoFault)

SpecChat == Init /\ [][NextChat]_vars

NextChatAdmin ==
  \/ NextChat
  \/ \E u \in Users, id \in Users, r \in Roles : AdminPatchUser(u, id, r)

SpecChatAdmin == Init /\ [][NextChatAdmin]_vars

NextDispatch ==
  \/ \E u \in Users : CreateService(u)
  \/ \E u \in Users, sid \in ServiceIds, f \in Faults :
       CreateBooking(u, sid, 0, f)
  \/ \E u \in Users, b \in BookingIds, t \in {"ACCEPTED", "CANCELLED"},
          f \in Faults :
       PatchBookingStatus(u, b, t, f)
  \/ \E s \in Sockets, u \in Users : Connect(s, u)
  \/ \E s \in Sockets, b \in BookingIds, body \in Bodies, f \in Faults :
       SendMessage(s, b, body, f)

SpecDispatch == Init /\ [][NextDispatch]_vars

NextAuth ==
  \/ \E token \in Tokens : ServicesPost(token)
  \/ \E token \in Tokens, sid \in ServiceIds : BookingsPost(token, sid, 0)
  \/ \E token \in Tokens, b \in BookingIds :
       BookingsPatchStatus(token, b, "ACCEPTED")
  \/ \E s \in Sockets, token \in Tokens : Handshake(s, token)
  \/ \E s \in Sockets : Disconnect(s)

SpecAuth == Init /\ [][NextAuth]_vars

NotificationIds == 1 .. MaxNotifications

NextLedger ==
  \/ \E u \in Users : CreateService(u)
  \/ \E u \in Users, sid \in ServiceIds : CreateBooking(u, sid, 0, NoFault)
  \/ \E b \in BookingIds : PatchBookingStatus("B", b, "ACCEPTED", NoFault)
  \/ \E u \in Users, id \in NotificationIds : MarkRead(u, id)
  \/ \E u \in Users : MarkAllRead(u)
  \/ \E u \in Users, id \in NotificationIds : DeleteNotification(u, id)

SpecLedger == Init /\ [][NextLedger]_vars

NextAsync ==
  \/ \E u \in Users : CreateService(u)
  \/ \E u \in Users, sid \in ServiceIds, store \in StoreOutcomes :
       CreateBookingRespond(u, [serviceId |-> sid, customerId |-> NoUser],
                            0, store)
  \/ \E u \in Users, b \in BookingIds, store \in StoreOutcomes :
       PatchStatusRespond(u, b, "ACCEPTED", store)
  \/ Dispatch

SpecAsync == Init /\ [][NextAsync]_vars

\* booking creation with every body a client can send, roles changing
NextCreate ==
  \/ \E u \in Users : CreateService(u)
  \/ \E t \in Users, r \in Roles : AdminPatchUser("C", t, r)
  \/ \E u \in Users, body \in BookingBodies, store \in StoreOutcomes :
       CreateBookingRespond(u, body, 0, store)
  \/ Dispatch

SpecCreate == Init /\ [][NextCreate]_vars

NextAsyncChat ==
  \/ \E u \in Users : CreateService(u)
  \/ \E u \in Users, sid \in ServiceIds : CreateBooking(u, sid, 0, NoFault)
  \/ \E s \in Sockets, u \in Users : Connect(s, u)
  \/ \E s \in Sockets, b \in BookingIds : JoinBooking(s, b)
  \/ \E s \in Sockets, b \in BookingIds, store \in StoreOutcomes :
       SendMessageRespond(s, b, <<"a">>, store)
  \/ Dispatch

SpecAsyncChat == Init /\ [][NextAsyncChat]_vars

\* a pending continuation is run sooner or later; its outcome is not chosen
SpecAsyncFair == SpecAsync /\ WF_vars(Dispatch)

NextFrame ==
  \/ \E u \in Users : CreateService(u)
  \/ \E r \in Roles : AdminPatchUser("C", "C", r)
  \/ \E u \in Users, sid \in ServiceIds : CreateBooking(u, sid, 0, NoFault)
  \/ \E u \in Users : Connect(1, u)
  \/ \E b \in BookingIds : SendMessage(1, b, <<"a">>, NoFault)
  \/ \E u \in Users, b \in BookingIds,
          t \in {"PENDING", "ACCEPTED", "CANCELLED"} :
       PatchBookingStatus(u, b, t, NoFault)

SpecFrame == Init /\ [][NextFrame]_vars

NextRating ==
  \/ \E u \in Users : CreateService(u)
  \/ \E u \in Users, sid \in ServiceIds : CreateBooking(u, sid, 0, NoFault)
  \/ \E u \in Users, b \in BookingIds,
          t \in {"ACCEPTED", "COMPLETED", "CANCELLED"} :
       PatchBookingStatus(u, b, t, NoFault)
  \/ \E u \in Users, b \in BookingIds, stars \in Stars : RatingCheck(u, b, stars)
  \/ \E u \in Users, b \in BookingIds, stars \in Stars, checked \in Statuses :
       RatingCreate(u, b, stars, checked)

SpecRating == Init /\ [][NextRating]_vars

NextHistory ==
  \/ \E u \in Users : CreateService(u)
  \/ \E u \in Users, sid \in ServiceIds : CreateBooking(u, sid, 0, NoFault)
  \/ \E u \in Users : Connect(1, u)
  \/ \E s \in Sockets : Disconnect(s)
  \/ \E b \in BookingIds, body \in Bodies : SendMessage(1, b, body, NoFault)
  \/ \E token \in Tokens, b \in BookingIds : MessagesGet(token, b)

SpecHistory == Init /\ [][NextHistory]_vars

\* ------------------------------------------------------------- claims
Terminal == {"DECLINED", "CANCELLED", "COMPLETED"}

TransitionGraph ==
  {<<"PENDING", "ACCEPTED">>, <<"PENDING", "DECLINED">>,
   <<"PENDING", "CANCELLED">>, <<"ACCEPTED", "COMPLETED">>}

FulfillerMoves ==
  {<<"PENDING", "ACCEPTED">>, <<"PENDING", "DECLINED">>,
   <<"ACCEPTED", "COMPLETED">>}

\* the last step was a well-formed call of PATCH /api/bookings/:id/status
\* on an existing booking
IsTransitionCall(l) ==
  /\ l.op = "patchStatus"
  /\ l.target \in StatusSchema
  /\ l.bid \in DOMAIN bookings

ByRequester(l) == l.role = "CUSTOMER" /\ bookings[l.bid].customerId = l.user
ByFulfiller(l) == l.role = "PROVIDER" /\ bookings[l.bid].providerId = l.user

\* a move of the role-gated table of the specification, by its owner
LegalMove(l) ==
  \/ ByFulfiller(l) /\ <<l.before, l.target>> \in FulfillerMoves
  \/ ByRequester(l) /\ <<l.before, l.target>> = <<"PENDING", "CANCELLED">>

\* C1: every change of a booking's status follows an edge of the graph
\* PENDING->ACCEPTED, PENDING->DECLINED, PENDING->CANCELLED,
\* ACCEPTED->COMPLETED; in particular COMPLETED is only entered from ACCEPTED.
C1_StatusFollowsGraph ==
  [][\A b \in DOMAIN bookings :
       bookings'[b].status # bookings[b].status =>
         <<bookings[b].status, bookings'[b].status>> \in TransitionGraph]_vars

\* C2: a booking in DECLINED, CANCELLED or COMPLETED keeps that status, and
\* every transition request on it fails.
C2_TerminalIsFinal ==
  [][/\ \A b \in DOMAIN bookings :
          bookings[b].status \in Terminal =>
            bookings'[b].status = bookings[b].status
     /\ (last'.op = "patchStatus" /\ last'.before \in Terminal) =>
          last'.outcome # "OK"]_vars

\* C3: a transition request by a user who is neither the requester nor the
\* fulfiller of the booking is answered Forbidden, whatever the user's role,
\* and leaves the status as it was.
C3_OutsiderForbidden ==
  (/\ IsTransitionCall(last)
   /\ last.user # bookings[last.bid].customerId
   /\ last.user # bookings[last.bid].providerId)
  => /\ last.outcome = "Forbidden"
     /\ bookings[last.bid].status = last.before

\* C4: a transition request only succeeds when the stored status at write
\* time is still the status its precondition was checked against; it never
\* overwrites a status written by a concurrent request.
C4_NoStaleOverwrite ==
  (IsTransitionCall(last) /\ LegalMove(last) /\ last.outcome = "OK")
  => last.old = last.before

\* C5: a request by the booking's requester succeeds iff the target is
\* CANCELLED and the current status is PENDING; otherwise it fails with
\* InvalidTransition and the status is unchanged.
C5_RequesterOnlyCancelsPending ==
  (IsTransitionCall(last) /\ ByRequester(last))
  => /\ last.outcome = "OK" <=>
          (last.target = "CANCELLED" /\ last.before = "PENDING")
     /\ last.outcome # "OK" =>
          /\ last.outcome = "InvalidTransition"
          /\ bookings[last.bid].status = last.before

C7_ReissueRejected ==
  [][(/\ IsTransitionCall(last) /\ last.outcome = "OK"
      /\ LegalMove(last)
      /\ last'.op = "patchStatus"
      /\ last'.user = last.user /\ last'.role = last.role
      /\ last'.bid = last.bid /\ last'.target = last.target)
     => /\ last'.outcome = "InvalidTransition"
        /\ bookings' = bookings
        /\ notifications' = notifications]_vars

\* the other participant of booking bk, seen from participant u
Counterparty(bk, u) == IF u = bk.providerId THEN bk.customerId ELSE bk.providerId

\* C8: the notification of a successful legal transition (fulfiller
\* accepted, declined or completed; requester cancelled) is addressed to the
\* other participant, never to the acting user.
C8_NotifiesCounterparty ==
  (/\ IsTransitionCall(last) /\ last.outcome = "OK" /\ LegalMove(last)
   /\ bookings[last.bid].customerId # bookings[last.bid].providerId)
  => /\ notifications # << >>
     /\ notifications[Len(notifications)].userId =
          Counterparty(bookings[last.bid], last.user)
     /\ notifications[Len(notifications)].userId # last.user

\* C9: a successful legal transition by a participant creates exactly one
\* Notification row, for the counterparty, typed after the new status, and
\* makes at most one push, to the counterparty's per-user room, which
\* reaches exactly that user's live sockets (none when there is none).
C9_OneRowOnePush ==
  [][(/\ last'.op = "patchStatus" /\ last'.outcome = "OK"
      /\ last'.bid \in DOMAIN bookings
      /\ LegalMove(last')
      /\ bookings[last'.bid].customerId # bookings[last'.bid].providerId)
     => LET bk == bookings[last'.bid]
            to == Counterparty(bk, last'.user)
            row == NotificationRow(to, "BOOKING_" \o last'.target, last'.bid)
        IN /\ notifications' = Append(notifications, row)
           /\ Len(emitted') <= 1
           /\ \A i \in DOMAIN emitted' :
                /\ emitted'[i].room = UserRoomName(to)
                /\ emitted'[i].payload = row
                /\ emitted'[i].to = {s \in Sockets : socketUser[s] = to}]_vars

\* C10: scenario. A successful creation by A on an active service of B
\* stores a PENDING booking with fulfiller B and responseDueAt = creation
\* time + response window, and produces exactly one booking-created
\* notification for B. An ACCEPTED request of fulfiller B on the PENDING
\* booking sets ACCEPTED and produces exactly one booking-accepted
\* notification for A. An ACCEPTED request of B on the ACCEPTED booking is
\* answered InvalidTransition and produces nothing.
C10_Scenario ==
  [][/\ (last'.op = "createBooking" /\ last'.outcome = "Created") =>
          LET b  == last'.bid
              bk == bookings'[b]
              sv == services[bk.serviceId]
          IN /\ bookings' = Append(bookings, bk)
             /\ sv.isActive
             /\ bk.customerId = last'.user
             /\ bk.providerId = sv.providerId
             /\ bk.status = "PENDING"
             /\ bk.responseDueAt = bk.createdAt + ResponseWindowMs
             /\ notifications' =
                  Append(notifications,
                         NotificationRow(sv.providerId, "BOOKING_CREATED", b))
     /\ (/\ last'.op = "patchStatus" /\ last'.target = "ACCEPTED"
         /\ last'.bid \in DOMAIN bookings
         /\ last'.role = "PROVIDER"
         /\ last'.user = bookings[last'.bid].providerId) =>
          LET b == last'.bid IN
          /\ bookings[b].status = "PENDING" =>
               /\ last'.outcome = "OK"
               /\ bookings' = [bookings EXCEPT ![b].status = "ACCEPTED"]
               /\ notifications' =
                    Append(notifications,
                           NotificationRow(bookings[b].customerId,
                                           "BOOKING_ACCEPTED", b))
          /\ bookings[b].status = "ACCEPTED" =>
               /\ last'.outcome = "InvalidTransition"
               /\ bookings' = bookings
               /\ notifications' = notifications]_vars

\* A booked B's service, B accepted, and B's second ACCEPTED was rejected
C10_Witness ==
  /\ IsTransitionCall(last)
  /\ last.user = "B" /\ last.role = "PROVIDER" /\ last.target = "ACCEPTED"
  /\ last.before = "ACCEPTED" /\ last.outcome = "InvalidTransition"
  /\ bookings[last.bid].customerId = "A"
  /\ bookings[last.bid].providerId = "B"
  /\ bookings[last.bid].status = "ACCEPTED"
  /\ notifications =
       <<NotificationRow("B", "BOOKING_CREATED", last.bid),
         NotificationRow("A", "BOOKING_ACCEPTED", last.bid)>>

\* the success response of the operation of the last step
SuccessOutcome(l) == IF l.op = "createBooking" THEN "Created" ELSE "OK"

\* the type of the notification the operation of the last step dispatches
DispatchedType(l) ==
  CASE l.op = "createBooking" -> "BOOKING_CREATED"
    [] l.op = "patchStatus"   -> "BOOKING_" \o l.target
    [] OTHER                  -> "MESSAGE_RECEIVED"

\* the booking or message written by the last step is stored as written
PrimaryPersisted(l) ==
  /\ l.bid \in DOMAIN bookings
  /\ l.op = "createBooking" =>
       /\ l.bid = Len(bookings)
       /\ bookings[l.bid].status = "PENDING"
       /\ bookings[l.bid].customerId = l.user
  /\ l.op = "patchStatus" => bookings[l.bid].status = l.target
  /\ l.op = "sendMessage" =>
       /\ messages # << >>
       /\ messages[Len(messages)].bookingId = l.bid
       /\ messages[Len(messages)].senderId = l.user

\* C11: when the e-mail of a dispatch fails (no address resolved, send
\* failed, transport disabled), the booking keeps the status the operation
\* wrote, the Notification row of the event is in the Ledger, the push of
\* that row has been made, and the caller got the success response.
C11_EmailFailureIsolated ==
  dispatched.email \in EmailFailures =>
    /\ last.outcome = SuccessOutcome(last)
    /\ PrimaryPersisted(last)
    /\ notifications # << >>
    /\ LET n == notifications[Len(notifications)] IN
         /\ n.bookingId = last.bid
         /\ n.type = DispatchedType(last)
         /\ emitted # << >>
         /\ emitted[Len(emitted)] = Push(n)

\* a status change whose e-mail could not be sent, pushed to a live socket
C11_Witness ==
  /\ last.op = "patchStatus" /\ last.outcome = "OK"
  /\ dispatched.email = "sendFailed"
  /\ bookings[last.bid].status = last.target
  /\ notifications[Len(notifications)].type = "BOOKING_" \o last.target
  /\ emitted[1].to # {}

\* C12: whichever notification channel fails after a booking creation, a
\* status change or a chat message, the caller gets the success response of
\* the operation (no error event on the socket), and the booking or message
\* stays stored as written.
C12_ChannelFailureNotSurfaced ==
  (/\ last.op \in {"createBooking", "patchStatus", "sendMessage"}
   /\ \/ dispatched.ledger = "fail"
      \/ dispatched.push = "fail"
      \/ dispatched.email \in EmailFailures)
  => /\ last.outcome = SuccessOutcome(last)
     /\ PrimaryPersisted(last)
     /\ \A i \in DOMAIN emitted : emitted[i].event # "error"

\* a chat message was stored and broadcast although the Ledger write failed
C12_Witness ==
  /\ last.op = "sendMessage" /\ last.outcome = "OK"
  /\ dispatched.ledger = "fail"
  /\ messages # << >>
  /\ Len(emitted) = 1 /\ emitted[1].event = "new_message"
  /\ \A i \in DOMAIN notifications : notifications[i].type # "MESSAGE_RECEIVED"

\* the request of the step named a service that is missing or inactive
ServiceUnavailable(l) ==
  l.sid \notin DOMAIN services \/ ~services[l.sid].isActive

\* what C13 says of a creation step, given which requests it speaks of
CreationChecked(inScope) ==
     last'.op = "createBooking" =>
       /\ (inScope /\ ServiceUnavailable(last')) =>
            /\ last'.outcome = "NotFound"
            /\ bookings' = bookings
            /\ notifications' = notifications
            /\ emitted' = << >>
       /\ last'.outcome = "Created" =>
            /\ ~ServiceUnavailable(last')
            /\ bookings' =
                 Append(bookings, bookings'[Len(bookings')])
            /\ bookings'[Len(bookings')].status = "PENDING"
            /\ bookings'[Len(bookings')].serviceId = last'.sid
            /\ bookings'[Len(bookings')].providerId =
                 services[last'.sid].providerId

C14_RequesterIsNotFulfiller ==
  \A b \in DOMAIN bookings : bookings[b].customerId # bookings[b].providerId

\* the user of the last step is a party of booking b
IsParty(u, b) ==
  /\ b \in DOMAIN bookings
  /\ u \in {bookings[b].customerId, bookings[b].providerId}

\* C15: a send_message of a connection whose user is neither requester nor
\* fulfiller of the named booking is rejected, every time, and stores no
\* Message, broadcasts no new_message and creates no notification.
C15_OutsiderCannotSend ==
  [][(last'.op = "sendMessage" /\ ~IsParty(last'.user, last'.bid))
     => /\ last'.outcome # "OK"
        /\ messages' = messages
        /\ notifications' = notifications
        /\ \A i \in DOMAIN emitted' :
             emitted'[i].event \notin {"new_message", "new_notification"}]_vars

\* an outsider's message on an existing booking was refused
C15_Witness ==
  /\ last.op = "sendMessage" /\ last.bid \in DOMAIN bookings
  /\ ~IsParty(last.user, last.bid)
  /\ last.outcome = "Access denied"
  /\ messages = << >>
  /\ Len(emitted) = 1 /\ emitted[1].event = "error"

\* C16: every stored Message has a body that is not empty after trimming
\* (a send_message with an empty or whitespace-only body stores nothing).
C16_NoEmptyBody ==
  \A i \in DOMAIN messages : Trim(messages[i].body) # << >>

\* C17: a successful send_message stores exactly one Message, broadcasts
\* that stored message once to the booking room, then dispatches exactly one
\* message-received notification to the other participant of the booking,
\* never to the sender.
C17_MessageFanOut ==
  [][(last'.op = "sendMessage" /\ last'.outcome = "OK")
     => LET b   == last'.bid
            m   == messages'[Len(messages')]
            to  == Counterparty(bookings[b], last'.user)
            row == NotificationRow(to, "MESSAGE_RECEIVED", b)
        IN /\ messages' = Append(messages, m)
           /\ m.bookingId = b /\ m.senderId = last'.user
           /\ Len(emitted') = 2
           /\ emitted'[1].event = "new_message"
           /\ emitted'[1].room = BookingRoomName(b)
           /\ emitted'[1].payload = m
           /\ emitted'[2].event = "new_notification"
           /\ emitted'[2].payload = row
           /\ notifications' = Append(notifications, row)
           /\ to # last'.user]_vars

\* every member of a booking room is a party of that booking
RoomsHoldParties ==
  \A s \in Sockets, b \in BookingIds :
    BookingRoomName(b) \in rooms[s] => IsParty(socketUser[s], b)

\* C18: every socket in the room of booking b belongs to the requester or
\* the fulfiller of b; a join_booking that is refused changes no room and
\* emits nothing; every new_message broadcast reaches parties only.
C18_RoomOfParties ==
  [][/\ RoomsHoldParties'
     /\ (last'.op = "joinBooking" /\ ~IsParty(last'.user, last'.bid)) =>
          /\ rooms' = rooms
          /\ emitted' = << >>
     /\ \A i \in DOMAIN emitted' :
          emitted'[i].event = "new_message" =>
            \A s \in emitted'[i].to :
              IsParty(socketUser[s], emitted'[i].payload.bookingId)]_vars

\* a message was broadcast to a socket that had joined the booking room,
\* and not to the live socket of an outsider
C18_Witness ==
  /\ last.op = "sendMessage" /\ last.outcome = "OK"
  /\ emitted[1].event = "new_message"
  /\ emitted[1].to # {}
  /\ \A s \in emitted[1].to : IsParty(socketUser[s], last.bid)
  /\ \E s \in Sockets \ emitted[1].to :
       socketUser[s] # NoUser /\ ~IsParty(socketUser[s], last.bid)

\* C19: a live socket is in the per-user room of its own user and of no
\* other user, a closed socket is in none; a new_notification push for user
\* U reaches exactly the live sockets authenticated as U.
C19_OwnUserRoomOnly ==
  /\ \A s \in Sockets, u \in Users :
       UserRoomName(u) \in rooms[s] <=> socketUser[s] = u
  /\ \A i \in DOMAIN emitted :
       emitted[i].event = "new_notification" =>
         emitted[i].to = {s \in Sockets : socketUser[s] = emitted[i].payload.userId}

\* a notification was pushed to the live socket of its recipient, and not
\* to the live socket of another user
C19_Witness ==
  /\ emitted # << >>
  /\ emitted[Len(emitted)].event = "new_notification"
  /\ emitted[Len(emitted)].to # {}
  /\ \A s \in emitted[Len(emitted)].to :
       socketUser[s] = emitted[Len(emitted)].payload.userId
  /\ \E s \in Sockets \ emitted[Len(emitted)].to : socketUser[s] # NoUser

\* C20: a request or handshake without a token or with a refused token is
\* answered Unauthorized, one whose identity has no local user record is
\* answered with the distinct NotFound outcome; in both cases nothing
\* changes, no socket is connected and no userId or role is bound. With a
\* token of a local user the role bound is that user's role.
C20_AccessControlFirst ==
  [][last'.op \in {"createService", "createBooking", "patchStatus", "connect"}
     => LET t == last'.user
            http == last'.op # "connect"
        IN /\ t \in {"missing", "invalid"} =>
                last'.outcome =
                  (IF http THEN "Unauthorized" ELSE "Authentication error")
           /\ t \in Identities \ DOMAIN role =>
                last'.outcome = (IF http THEN "NotFound" ELSE "User not found")
           /\ t \notin DOMAIN role =>
                /\ last'.role = "NONE"
                /\ UNCHANGED <<role, services, bookings, notifications,
                               messages, socketUser, rooms>>
                /\ emitted' = << >>
           /\ t \in DOMAIN role =>
                /\ last'.role = role[t]
                /\ last'.outcome \notin {"Unauthorized", "Authentication error",
                                         "User not found"}]_vars

\* an identity without a local record asked to create a booking on an
\* active service and was answered NotFound; nothing was stored
C20_Witness ==
  /\ last.op = "createBooking" /\ last.user = "D"
  /\ last.outcome = "NotFound" /\ last.role = "NONE"
  /\ services # << >> /\ services[1].isActive
  /\ bookings = << >>

\* ---------------------------------------------------------------- C21
LedgerOps == {"markRead", "markAllRead", "deleteNotification"}

\* row i keeps its recipient, type and booking; only its read flag may differ
SameButRead(i) ==
  /\ i \in DOMAIN notifications'
  /\ notifications'[i].userId = notifications[i].userId
  /\ notifications'[i].type = notifications[i].type
  /\ notifications'[i].bookingId = notifications[i].bookingId

\* row i was touched by the step: changed or removed
Touched(i) ==
  \/ notifications'[i] # notifications[i]
  \/ i \in deleted' \ deleted

\* only the owner's requests touch a row, a request on another user's row is
\* answered NotFound, and read-all touches the caller's rows only
OwnerScoped ==
  /\ \A i \in DOMAIN notifications :
       /\ SameButRead(i)
       /\ Touched(i) => /\ last'.op \in LedgerOps
                        /\ last'.user = notifications[i].userId
  /\ /\ last'.op \in {"markRead", "deleteNotification"}
     /\ last'.bid \in Present
     /\ notifications[last'.bid].userId # last'.user
     => /\ last'.outcome = "NotFound"
        /\ notifications' = notifications
        /\ deleted' = deleted

Delivered(k) ==
  /\ k \in DOMAIN jobs
  /\ jobs[k].row \in Present
  /\ notifications[jobs[k].row].type = jobs[k].type
  /\ notifications[jobs[k].row].bookingId = jobs[k].bookingId
  /\ notifications[jobs[k].row].userId =
       Counterparty(bookings[jobs[k].bookingId], jobs[k].actor)

\* C22: after every successful booking creation, every successful status
\* transition and every persisted chat message, a Notification row for the
\* counterparty is eventually in the Ledger, when pending dispatch steps are
\* scheduled fairly, even when a dispatch step fails.
C22_AtLeastOnce ==
  \A k \in 1 .. MaxJobs : (k \in DOMAIN jobs) ~> Delivered(k)

\* ---------------------------------------------------------------- C23
RespondOps  == {"createBooking", "patchStatus"}
DispatchOps == {"dispatchLedger", "dispatchPush", "dispatchEmail"}

\* the step wrote the booking its response speaks of
WroteBooking ==
  /\ last'.bid \in DOMAIN bookings'
  /\ last'.op = "createBooking" =>
       /\ Len(bookings') = Len(bookings) + 1
       /\ last'.bid = Len(bookings')
       /\ bookings'[last'.bid].status = "PENDING"
  /\ last'.op = "patchStatus" => bookings'[last'.bid].status = last'.target

\* the step started one dispatch, of which nothing has been done yet
StartedDispatch ==
  /\ Len(jobs') = Len(jobs) + 1
  /\ SubSeq(jobs', 1, Len(jobs)) = jobs
  /\ jobs'[Len(jobs')].stage = "ledger"
  /\ jobs'[Len(jobs')].row = 0
  /\ jobs'[Len(jobs')].bookingId = last'.bid
  /\ notifications' = notifications
  /\ emitted' = << >>
  /\ dispatched' = NoDispatch

RespondsBeforeDispatch ==
  /\ last'.op \in RespondOps =>
       /\ bookings' # bookings => last'.outcome = SuccessOutcome(last')
       /\ last'.outcome = SuccessOutcome(last') =>
            WroteBooking /\ StartedDispatch
       /\ last'.outcome # SuccessOutcome(last') =>
            /\ jobs' = jobs
            /\ notifications' = notifications
            /\ emitted' = << >>
  /\ last'.op \in DispatchOps => bookings' = bookings

\* C23: for booking creation and status transition the response is sent
\* after the persistence write and before the dispatch has done anything; it
\* is sent whatever the dispatch does later, and no dispatch is started for a
\* request that was answered with an error.
C23_RespondsBeforeDispatch == [][RespondsBeforeDispatch]_vars

\* a transition was answered 200 with its dispatch not begun, after the
\* dispatch of the creation had failed at its Ledger write
C23_Witness ==
  /\ last.op = "patchStatus" /\ last.outcome = "OK"
  /\ Len(jobs) = 2
  /\ jobs[1].stage = "dropped"
  /\ jobs[2].stage = "ledger"
  /\ notifications = << >>

\* ---------------------------------------------------------------- C24
\* C24: when the store write of a booking creation or of a transition fails,
\* the caller receives an error, the bookings are as before the request (the
\* status is the one it had, no booking is added), and no notification is
\* written, pushed or e-mailed for the request: no dispatch is started.
C24_FailedWriteChangesNothing ==
  [][(last'.op \in RespondOps /\ last'.store = "fail")
     => /\ last'.outcome = "Internal"
        /\ bookings' = bookings
        /\ jobs' = jobs
        /\ notifications' = notifications
        /\ emitted' = << >>
        /\ dispatched' = NoDispatch]_vars

\* the update of a legal transition of the fulfiller was rejected by the
\* store and the booking is still PENDING
C24_Witness ==
  /\ last.op = "patchStatus" /\ last.store = "fail"
  /\ last.outcome = "Internal"
  /\ last.user = bookings[last.bid].providerId
  /\ last.target = "ACCEPTED"
  /\ bookings[last.bid].status = "PENDING"

\* ---------------------------------------------------------------- C25
\* C25: a failure of the realtime push of an event neither removes the
\* Notification row already written for it nor prevents the hand-off of the
\* event to the e-mail channel.
C25_PushFailureIsolated ==
  [][(last'.op = "dispatchPush" /\ last'.outcome = "fail")
     => \A k \in DOMAIN jobs :
          jobs'[k] # jobs[k] =>
            /\ jobs'[k].row \in DOMAIN notifications' \ deleted'
            /\ notifications'[jobs'[k].row] = JobRow(jobs[k])
            /\ jobs'[k].stage = "email"]_vars

\* ---------------------------------------------------------------- C26
\* the stage a dispatch may reach next
StageOrder ==
  {<<"ledger", "push">>, <<"ledger", "dropped">>, <<"push", "email">>,
   <<"push", "dropped">>, <<"email", "done">>}

\* the Notification row of dispatch k is in the Ledger
RowWritten(k) ==
  /\ jobs[k].row \in DOMAIN notifications
  /\ notifications[jobs[k].row] = JobRow(jobs[k])

DispatchInOrder ==
  /\ \A k \in DOMAIN jobs :
       /\ k \in DOMAIN jobs'
       /\ jobs'[k] # jobs[k] =>
            /\ last'.op \in DispatchOps
            /\ <<jobs[k].stage, jobs'[k].stage>> \in StageOrder
            \* the write: one row, this event's, or the event is dropped
            /\ jobs[k].stage = "ledger" =>
                 IF jobs'[k].stage = "push"
                   THEN /\ notifications' = Append(notifications, JobRow(jobs[k]))
                        /\ jobs'[k].row = Len(notifications')
                        /\ emitted' = << >>
                   ELSE /\ last'.outcome = "fail"
                        /\ notifications' = notifications
                        /\ jobs'[k].row = 0
                        /\ emitted' = << >>
            \* the push and the e-mail: the row is there already
            /\ jobs[k].stage \in {"push", "email"} =>
                 /\ RowWritten(k)
                 /\ notifications' = notifications
                 /\ jobs'[k].row = jobs[k].row
            /\ jobs[k].stage = "push" /\ jobs'[k].stage = "email" =>
                 emitted' = <<Push(notifications[jobs[k].row])>>
            /\ jobs[k].stage = "email" => emitted' = << >>
       \* a dropped or finished dispatch is never taken up again
       /\ jobs[k].stage \in {"dropped", "done"} => jobs'[k] = jobs[k]
  \* a dispatch step starts no dispatch
  /\ last'.op \in DispatchOps => Len(jobs') = Len(jobs)
  \* every push of a notification is the push of a written row
  /\ \A i \in DOMAIN emitted' :
       emitted'[i].event = "new_notification" =>
         \E r \in DOMAIN notifications : emitted'[i].payload = notifications[r]

\* C26: within one dispatch the steps run in the order Ledger write,
\* realtime push, e-mail hand-off; a push or an e-mail is issued only for an
\* event whose row has been created, the pushed payload is that row, and an
\* event whose Ledger write failed is dropped: no push, no e-mail, no retry.
C26_DispatchInOrder == [][DispatchInOrder]_vars

\* the row of the second event was pushed after the first event had been
\* dropped at its Ledger write
C26_Witness ==
  /\ last.op = "dispatchPush" /\ last.outcome = "ok"
  /\ Len(jobs) = 2
  /\ jobs[1].stage = "dropped" /\ jobs[1].row = 0
  /\ jobs[2].stage = "email" /\ jobs[2].row = 1
  /\ emitted = <<Push(notifications[1])>>

\* ---------------------------------------------------------------- C27
TransitionTargets == {"ACCEPTED", "DECLINED", "CANCELLED", "COMPLETED"}

\* the step left every persisted row as it was and issued nothing
NothingChanged ==
  /\ bookings' = bookings
  /\ notifications' = notifications
  /\ deleted' = deleted
  /\ messages' = messages
  /\ services' = services
  /\ role' = role
  /\ ratings' = ratings
  /\ emitted' = << >>
  /\ dispatched' = NoDispatch

\* C27: a transition request that is rejected (malformed target status,
\* booking not found, Forbidden, InvalidTransition) leaves the booking, the
\* Notifications and the Messages as they were and issues no push and no
\* e-mail; a malformed target and a missing booking are always rejected.
C27_RejectedChangesNothing ==
  [][last'.op = "patchStatus"
     => /\ last'.target \notin TransitionTargets =>
             last'.outcome = "ValidationError"
        /\ (last'.target \in TransitionTargets
            /\ last'.bid \notin DOMAIN bookings) =>
             last'.outcome = "NotFound"
        /\ last'.outcome # "OK" => NothingChanged]_vars

\* a user who is no party to the booking was answered Forbidden while the
\* store held a message and notifications
C27_Witness ==
  /\ last.op = "patchStatus" /\ last.outcome = "Forbidden"
  /\ ~IsParty(last.user, last.bid)
  /\ messages # << >>
  /\ Len(notifications) >= 2

\* ---------------------------------------------------------------- C28
\* C28: only a user whose role is CUSTOMER creates a booking: a creation
\* request of a PROVIDER or ADMIN is answered Forbidden whatever service it
\* names, stores no booking and starts no notification; the requester of a
\* created booking is the authenticated caller, whatever the body says.
C28_OnlyCustomerCreates ==
  [][last'.op = "createBooking"
     => /\ last'.role # "CUSTOMER" =>
             /\ last'.outcome = "Forbidden"
             /\ bookings' = bookings
             /\ jobs' = jobs
             /\ notifications' = notifications
             /\ emitted' = << >>
        /\ last'.outcome = "Created" =>
             /\ last'.role = "CUSTOMER"
             /\ Len(bookings') = Len(bookings) + 1
             /\ bookings'[last'.bid].customerId = last'.user]_vars

\* a booking was created from a body that names another user as customer
C28_Witness ==
  /\ last.op = "createBooking" /\ last.outcome = "Created"
  /\ last.claimed \in Users \ {last.user}
  /\ bookings[last.bid].customerId = last.user

\* ---------------------------------------------------------------- C29
\* the request passed its checks as the requester of a COMPLETED booking
CheckedAsRequester(t) ==
  /\ t[2] \in DOMAIN bookings
  /\ bookings[t[2]].customerId = t[1]
  /\ t[4] = "COMPLETED"

RatedOnce(rs) ==
  \A i, j \in DOMAIN rs : rs[i].bookingId = rs[j].bookingId => i = j

RatingByRequesterOnce ==
  \* a request passes the checks only as the requester of a booking that is
  \* COMPLETED when it is read
  /\ \A t \in ratingsInflight' \ ratingsInflight :
       /\ CheckedAsRequester(t)
       /\ bookings[t[2]].status = "COMPLETED"
       /\ role[t[1]] = "CUSTOMER"
  \* a Rating is created only by a request that passed them
  /\ ratings' # ratings =>
       /\ Len(ratings') = Len(ratings) + 1
       /\ SubSeq(ratings', 1, Len(ratings)) = ratings
       /\ \E t \in ratingsInflight :
            /\ CheckedAsRequester(t)
            /\ ratings'[Len(ratings')].bookingId = t[2]
            /\ ratings'[Len(ratings')].customerId = t[1]
  \* each booking has at most one Rating
  /\ RatedOnce(ratings')

\* C29: a rating is created only by the requester of a booking whose status
\* is COMPLETED when the request checks it, and each booking has at most one
\* rating after any sequence of rating requests, two requests for the same
\* booking whose checks and writes interleave included.
C29_RatingByRequesterOnce == [][RatingByRequesterOnce]_vars

\* two requests for the same booking passed their checks; the first created
\* the rating and the create of the second was rejected by the store
C29_Witness ==
  /\ last.op = "createRating" /\ last.outcome = "Internal"
  /\ Len(ratings) = 1
  /\ ratings[1].bookingId = last.bid
  /\ ratings[1].customerId = last.user

\* ---------------------------------------------------------------- C30
\* the step left every persisted row and every room as it was
ReadOnly ==
  /\ NothingChanged
  /\ socketUser' = socketUser
  /\ rooms' = rooms

\* C30: the message history of a booking is returned only to its requester
\* or fulfiller: the listing request of any other authenticated user is
\* answered Forbidden (NotFound when the booking does not exist) with no
\* message, a party is answered with the messages of that booking, and a
\* listing changes no persisted state.
C30_HistoryForPartiesOnly ==
  [][last'.op = "listMessages"
     => /\ ReadOnly
        /\ last'.user \in Users =>
             /\ last'.bid \notin DOMAIN bookings =>
                  last'.outcome = "NotFound"
             /\ (last'.bid \in DOMAIN bookings
                 /\ ~IsParty(last'.user, last'.bid)) =>
                  last'.outcome = "Forbidden"
             /\ IsParty(last'.user, last'.bid) =>
                  /\ last'.outcome = "OK"
                  /\ last'.listed = MessagesOf(last'.bid)
        /\ last'.outcome # "OK" => last'.listed = << >>]_vars

\* a user who is no party to a booking with a message asked for its history
\* and was answered Forbidden, without a message
C30_Witness ==
  /\ last.op = "listMessages" /\ last.outcome = "Forbidden"
  /\ last.user \in Users
  /\ ~IsParty(last.user, last.bid)
  /\ MessagesOf(last.bid) # << >>
  /\ last.listed = << >>

=============================================================================
